---- MODULE Spec2Model ----
(***************************************************************************)
(* Amazon Bedrock embedding provider                                       *)
(* (src/src/services/code-index/embedders/bedrock.ts): createEmbeddings,   *)
(* the two family strategies, the retry loop and the Semaphore.            *)
(*                                                                         *)
(* The program is single-threaded and asynchronous: every action below is  *)
(* one synchronous run of code between two suspension points (an awaited   *)
(* transport call, an awaited timer, an awaited promise).                  *)
(***************************************************************************)
EXTENDS Integers, Sequences, FiniteSets, TLC

(***************************************************************************)
(* Bounds of the model.                                                    *)
(***************************************************************************)
\* The longest texts list given to a Titan model (whose calls run
\* concurrently) and to any other model; the largest maxConcurrency,
\* maxRetries and batchSize a caller configures.
MaxGatedTexts == 2
MaxTexts == 3
MaxConcurrency == 2
MaxRetriesBound == 3
MaxBatchSize == 2
\* The most transport calls of one createEmbeddings that are answered with a
\* failure or with a body that is not well formed.
MaxFaults == 3
\* The most acquire requests made of a Semaphore studied on its own, and the
\* most overlapping invocations of processTitanEmbeddings on one engine.
MaxRequests == 3
MaxInvocations == 2

(***************************************************************************)
(* Program constants.                                                      *)
(***************************************************************************)
INITIAL_RETRY_DELAY_MS == 500
MAX_BATCH_RETRIES == 3
DefaultBatchSize == 32
DefaultMaxConcurrency == 5

\* The texts a caller passes: the first n entries of this list.
Corpus == <<"Hello", "", "Text3 xyz", "Hello world", "abc">>

TitanModel == "amazon.titan-embed-text-v1"
CohereModel == "cohere.embed-english-v3"
CohereOverride == "cohere.embed-multilingual-v3"
UnsupportedModel == "unsupported.model"
Undefined == "<undefined>"

ConfigModels == {TitanModel, CohereModel, UnsupportedModel}
ModelArgs == {Undefined, "", CohereOverride, UnsupportedModel}

VARIABLES
    config,        \* this.config (modelId, batchSize, maxConcurrency, maxRetries)
    phase,         \* where createEmbeddings is: "idle", "running", "returned", "raised"
    texts,         \* the texts argument of the running createEmbeddings
    modelToUse,    \* the effective model id of the running createEmbeddings
    semaphore,     \* the Semaphore of processTitanEmbeddings: permits and waiting
    calls,         \* the logical calls (one per text, or one per chunk), in creation order
    loopI,         \* processCohereEmbeddings: the loop variable i
    allEmbeddings, \* processCohereEmbeddings: allEmbeddings
    totalTokens,   \* totalTokens of the running family strategy
    result,        \* what createEmbeddings returned or raised
    validation,    \* what validateConfiguration returned, once it has
    options,       \* the BedrockClientOptions given to createBedrockRuntimeClient
    client,        \* this.client: the BedrockRuntimeClient and its clientConfig
    gates          \* further Semaphore objects, each with the calls made through it

engine == <<config, phase, texts, modelToUse, semaphore, calls, loopI,
            allEmbeddings, totalTokens, result, validation, options, client>>

vars == <<engine, gates>>

(***************************************************************************)
(* Values.                                                                 *)
(***************************************************************************)
NoStatus == 0

\* What the transport can raise.
ThrottleError == [status |-> 429, message |-> "Too Many Requests"]
AuthError == [status |-> 401, message |-> "Unauthorized"]
PermissionError == [status |-> 403, message |-> "Forbidden - Permission denied"]
ConnectionError == [status |-> NoStatus, message |-> "ECONNREFUSED"]
GenericError == [status |-> NoStatus, message |-> "API connection failed"]

TransportErrors == {ThrottleError, AuthError, PermissionError, ConnectionError, GenericError}

\* The vector the remote model produces for the text at index i of texts.
Vector(i) == <<"vector", i>>
\* A vector that belongs to none of the request's texts.
StrayVector == Vector(0)

\* A decoded response body: whether the vector field is an array, is missing
\* or is something else, and the vectors it holds.
NoPayload == [field |-> "none", vectors |-> <<>>]
MissingField == [field |-> "missing", vectors |-> <<>>]
NotArrayField == [field |-> "notarray", vectors |-> <<>>]
ArrayField(vs) == [field |-> "array", vectors |-> vs]

NoError == [kind |-> "none", attempts |-> 0, status |-> NoStatus, message |-> ""]

Min(a, b) == IF a < b THEN a ELSE b

RECURSIVE Pow2(_)
Pow2(k) == IF k <= 0 THEN 1 ELSE 2 * Pow2(k - 1)

RECURSIVE SumSeq(_)
SumSeq(s) == IF s = <<>> THEN 0 ELSE Head(s) + SumSeq(Tail(s))

RECURSIVE Flatten(_)
Flatten(ss) == IF ss = <<>> THEN <<>> ELSE Head(ss) \o Flatten(Tail(ss))

\* texts.slice(from, to) with 0-based from and exclusive to, as indices 1..n
Slice(n, from, to) ==
    [k \in 1..(Min(to, n) - Min(from, n)) |-> from + k]

\* String.prototype.startsWith
startsWith(s, prefix) ==
    Len(s) >= Len(prefix) /\ SubSeq(s, 1, Len(prefix)) = prefix

isTitanModel(modelId) == startsWith(modelId, "amazon.titan-embed-")

\* Variant of the family test: whatever is not Titan is taken for Cohere.
isNotTitanModel(modelId) == ~startsWith(modelId, "amazon.titan-embed-")

isCohereModel(modelId) == startsWith(modelId, "cohere.embed-")

\* Variant of the resolution: the override is ignored.
EffectiveModelIgnoresOverride(model, defaultModel) == defaultModel

\* model || this.config.modelId: undefined and "" are both falsy
EffectiveModel(model, defaultModel) ==
    IF model = Undefined \/ model = "" THEN defaultModel ELSE model

\* Variant of the estimate: the quotient is rounded down.
EstimateTokensFloor(text) == Len(text) \div 4

\* Math.ceil(text.length / 4)
EstimateTokens(text) == (Len(text) + 3) \div 4

(***************************************************************************)
(* Error formatting (shared/validation-helpers, formatEmbeddingError): the *)
(* message template is selected by classification and carries the attempt  *)
(* count it is given and the underlying status and message.                *)
(***************************************************************************)
Classify(error) ==
    IF error.status = 401 THEN "authenticationFailed"
    ELSE IF error.status = 403 THEN "permissionDenied"
    ELSE IF error.message = "ECONNREFUSED" THEN "connectionFailed"
    ELSE IF error.status # NoStatus THEN "failedWithStatus"
    ELSE "failedWithError"

formatEmbeddingError(error, maxRetries) ==
    [kind |-> Classify(error), attempts |-> maxRetries,
     status |-> error.status, message |-> error.message]

\* new Error(t("embeddings:failedMaxAttempts", { attempts }))
FailedMaxAttempts(maxRetries) ==
    [kind |-> "failedMaxAttempts", attempts |-> maxRetries,
     status |-> NoStatus, message |-> ""]

\* new Error(t("embeddings:unsupportedModel", { model }))
UnsupportedModelError(modelId) ==
    [kind |-> "unsupportedModel", attempts |-> 0,
     status |-> NoStatus, message |-> modelId]

\* new Error("Invalid Titan embedding response") / ("Invalid Cohere ...")
InvalidResponseError(family) ==
    [kind |-> "invalidResponse", attempts |-> 0,
     status |-> NoStatus, message |-> family]

(***************************************************************************)
(* A logical call: one run of embedTitanText or embedCohereBatch.          *)
(*   pc      "queued"    waiting in the Semaphore                          *)
(*           "sending"   a transport call is in flight                     *)
(*           "backoff"   waiting out the retry delay                       *)
(*           "received"  the transport call returned, body not yet decoded *)
(*           "decoded"   embedTitanText / embedCohereBatch returned        *)
(*           "returning" the gated body returned its embedding             *)
(*           "throwing"  an error is propagating out of the call           *)
(*           "fulfilled", "rejected"  the call's promise has settled       *)
(*   items   the indices (in texts) of the texts the call embeds           *)
(*   trace   the call's transport attempts, their outcomes and its         *)
(*           completed backoff waits, in order                             *)
(*   waited  whether acquire found no permit and queued the call           *)
(*   reports the calls of TelemetryService.instance.captureEvent made for  *)
(*           the call by invokeModelWithRetries                            *)
(***************************************************************************)
NewCall(items) ==
    [pc |-> "queued", attempt |-> 0, items |-> items, payload |-> NoPayload,
     error |-> NoError, embeddings |-> <<>>, tokens |-> 0, trace |-> <<>>,
     waited |-> FALSE, reports |-> 0]

SendEvent(attempt) == [type |-> "send", attempt |-> attempt, status |-> NoStatus, ms |-> 0]
OkEvent(attempt) == [type |-> "ok", attempt |-> attempt, status |-> NoStatus, ms |-> 0]
FailEvent(attempt, status) == [type |-> "fail", attempt |-> attempt, status |-> status, ms |-> 0]
WaitEvent(attempt, ms) == [type |-> "wait", attempt |-> attempt, status |-> NoStatus, ms |-> ms]

Events(c, type) == {k \in 1..Len(c.trace) : c.trace[k].type = type}
Sends(c) == Cardinality(Events(c, "send"))
Waits(c) == Cardinality(Events(c, "wait"))
Throttles(c) == Cardinality({k \in Events(c, "fail") : c.trace[k].status = 429})

\* Variant of the loop condition: one attempt too many.
LoopContinuesInclusive(attempt, maxRetries) == attempt <= maxRetries

\* invokeModelWithRetries, loop condition: attempt < this.maxRetries
LoopContinues(attempt, maxRetries) == attempt < maxRetries

\* Variants of the retry decision: retrying every failure, retrying
\* status-less failures too, and counting the last attempt as retryable.
ShouldRetryAnyError(error, attempt, maxRetries) ==
    attempt < maxRetries - 1

ShouldRetryStatusless(error, attempt, maxRetries) ==
    (error.status = 429 \/ error.status = NoStatus) /\ attempt < maxRetries - 1

ShouldRetryOnLastAttempt(error, attempt, maxRetries) ==
    error.status = 429 /\ attempt < maxRetries

\* invokeModelWithRetries, catch block: status === 429 && hasMoreAttempts
ShouldRetry(error, attempt, maxRetries) ==
    error.status = 429 /\ attempt < maxRetries - 1

\* Variant of the delay: the exponent counts attempts from 1.
BackoffDelayFromOne(attempt) == INITIAL_RETRY_DELAY_MS * Pow2(attempt + 1)

\* INITIAL_RETRY_DELAY_MS * Math.pow(2, attempt)
BackoffDelay(attempt) == INITIAL_RETRY_DELAY_MS * Pow2(attempt)

\* What a raising telemetry collaborator throws.
TelemetryError ==
    [kind |-> "telemetryFailed", attempts |-> 0, status |-> NoStatus,
     message |-> "TelemetryService"]

\* invokeModelWithRetries, catch block, for a failure that is not retried:
\* captureEvent, console.error, throw formatEmbeddingError(error, maxRetries)
ReportAndThrow(c, error, maxRetries) ==
    [c EXCEPT !.reports = @ + 1, !.pc = "throwing",
              !.error = formatEmbeddingError(error, maxRetries)]

\* The same catch block when captureEvent raises: its error leaves the catch
\* block in place of the formatted one.
ReportRaises(c) == [c EXCEPT !.pc = "throwing", !.error = TelemetryError]

\* invokeModelWithRetries at the top of its loop with the call's attempt
\* counter: issue the transport call, or fall out of the loop and throw.
EnterLoop(c, maxRetries) ==
    IF LoopContinues(c.attempt, maxRetries)
    THEN [c EXCEPT !.pc = "sending",
                   !.trace = Append(@, SendEvent(c.attempt))]
    ELSE [c EXCEPT !.pc = "throwing", !.error = FailedMaxAttempts(maxRetries)]

\* The body of a logical call starts: embedTitanText / embedCohereBatch build
\* the request and enter invokeModelWithRetries with attempt = 0.
StartCall(c, maxRetries) == EnterLoop([c EXCEPT !.attempt = 0], maxRetries)

(***************************************************************************)
(* Semaphore.  A state of the gate together with the calls it runs is a    *)
(* record [sem |-> [exists, permits, waiting], calls |-> calls].           *)
(***************************************************************************)
NoSemaphore == [exists |-> FALSE, permits |-> 0, waiting |-> <<>>]

\* Variant of the constructor: the gate starts with one permit too many.
NewSemaphoreExtraPermit(permits) ==
    [exists |-> TRUE, permits |-> permits + 1, waiting |-> <<>>]

\* new Semaphore(permits)
NewSemaphore(permits) == [exists |-> TRUE, permits |-> permits, waiting |-> <<>>]

\* Variant of the permit test: a gate with no permit left still admits.
HasPermitOrZero(permits) == permits >= 0

\* acquire: if (this.permits > 0)
HasPermit(permits) == permits > 0

\* Variant of the start of a body: the permit is not taken.
RunBodyKeepsPermit(g, j, maxRetries) ==
    [g EXCEPT !.calls[j] = StartCall(@, maxRetries)]

\* A gated body starts running: this.permits--, then fn() runs up to its
\* first await, which is the transport call of attempt 0.
RunBody(g, j, maxRetries) ==
    [sem |-> [g.sem EXCEPT !.permits = @ - 1],
     calls |-> [g.calls EXCEPT ![j] = StartCall(@, maxRetries)]]

\* Semaphore.acquire(fn) for logical call j, up to its first await.
acquire(g, j, maxRetries) ==
    IF HasPermit(g.sem.permits)
    THEN RunBody(g, j, maxRetries)
    ELSE [g EXCEPT !.sem.waiting = Append(@, j), !.calls[j].waited = TRUE]

\* Variants of the finally block: the permit is returned but no waiter is
\* woken; and the waiter woken is the one queued last.
releaseWithoutWaking(g, maxRetries) == [g EXCEPT !.sem.permits = @ + 1]

releaseLastWaiter(g, maxRetries) ==
    LET returned == [g EXCEPT !.sem.permits = @ + 1]
        n == Len(returned.sem.waiting)
    IN IF n > 0
       THEN RunBody([returned EXCEPT !.sem.waiting = SubSeq(@, 1, n - 1)],
                    returned.sem.waiting[n], maxRetries)
       ELSE returned

\* The finally block of acquire (both paths): this.permits++, and if a waiter
\* is queued, shift it and call it; the waiter takes the permit and starts
\* its body in the same synchronous run.
release(g, maxRetries) ==
    LET returned == [g EXCEPT !.sem.permits = @ + 1]
    IN IF Len(returned.sem.waiting) > 0
       THEN RunBody([returned EXCEPT !.sem.waiting = Tail(@)],
                    Head(returned.sem.waiting), maxRetries)
       ELSE returned

\* Variant of acquire's completion: the cleanup runs after the body, not in
\* a finally block, so a body that throws skips it.
settleWithoutFinally(g, j, maxRetries) ==
    IF g.calls[j].pc = "returning"
    THEN release([g EXCEPT !.calls[j].pc = "fulfilled"], maxRetries)
    ELSE [g EXCEPT !.calls[j].pc = "rejected"]

\* The body of call j has returned or thrown: acquire settles the call's
\* promise with the body's value or error (return await fn(); resolve(result)
\* / reject(error)) and runs its finally block.
settle(g, j, maxRetries) ==
    release([g EXCEPT !.calls[j].pc = IF @ = "returning" THEN "fulfilled" ELSE "rejected"],
            maxRetries)

\* texts.map(async (text) => semaphore.acquire(...)): the acquires of texts
\* j..n in input order, all in one synchronous run.
RECURSIVE AcquireAll(_, _, _, _)
AcquireAll(g, j, n, maxRetries) ==
    IF j > n THEN g
    ELSE AcquireAll(acquire(g, j, maxRetries), j + 1, n, maxRetries)

\* Variant of the join: the values are collected last call first.
PromiseAllValuesReversed(cs) ==
    [j \in 1..Len(cs) |-> cs[Len(cs) + 1 - j].embeddings[1]]

\* Promise.all(promises) fulfils with the values in the order of promises.
PromiseAllValues(cs) == [j \in 1..Len(cs) |-> cs[j].embeddings[1]]

AllFulfilled(cs) == \A j \in 1..Len(cs) : cs[j].pc = "fulfilled"

Running(cs) ==
    {j \in 1..Len(cs) :
        cs[j].pc \in {"sending", "backoff", "received", "decoded", "returning", "throwing"}}

(***************************************************************************)
(* Results of createEmbeddings.                                            *)
(***************************************************************************)
Pending ==
    [status |-> "pending", embeddings |-> <<>>,
     usage |-> [promptTokens |-> 0, totalTokens |-> 0], error |-> NoError]

Returned(embeddings, tokens) ==
    [status |-> "returned", embeddings |-> embeddings,
     usage |-> [promptTokens |-> tokens, totalTokens |-> tokens], error |-> NoError]

Raised(error) ==
    [status |-> "raised", embeddings |-> <<>>,
     usage |-> [promptTokens |-> 0, totalTokens |-> 0], error |-> error]

\* Variant of the join: it raises the error of the rejected promise of
\* lowest index, as a join that waits for every promise and then reports
\* the first failure in input order would do.
PromiseAllLowestIndex(res, cs, j, tokens) ==
    LET rejected == {i \in 1..Len(cs) : cs[i].pc = "rejected"}
    IN IF rejected # {}
       THEN Raised(cs[CHOOSE i \in rejected : \A k \in rejected : i <= k].error)
       ELSE IF res.status = "pending" /\ AllFulfilled(cs)
       THEN Returned(PromiseAllValues(cs), tokens)
       ELSE res

\* await Promise.all(promises), seen when the promise of call j settles: a
\* settled join never changes; a pending one rejects with the rejection of
\* call j, or fulfils once every promise has fulfilled, and createEmbeddings
\* raises or returns accordingly.
PromiseAll(res, cs, j, tokens) ==
    IF res.status # "pending" THEN res
    ELSE IF cs[j].pc = "rejected" THEN Raised(cs[j].error)
    ELSE IF AllFulfilled(cs) THEN Returned(PromiseAllValues(cs), tokens)
    ELSE res

(***************************************************************************)
(* Results of validateConfiguration.                                       *)
(***************************************************************************)
NoValidation == [status |-> "none", valid |-> FALSE, error |-> "", reports |-> 0]
Validating == [status |-> "pending", valid |-> FALSE, error |-> "", reports |-> 0]

\* Variant of the minimal request: two texts.
ValidationTextsTwice == <<"test", "test">>

\* The text of the minimal request.
ValidationTexts == <<"test">>

\* Variant of the validation function: createEmbeddings is not awaited, so
\* its outcome is not seen.
ValidationFnNotAwaited(res) ==
    [outcome |-> "return", valid |-> TRUE, error |-> NoError, reports |-> 0]

\* The validation function when captureEvent raises in its catch block.
ValidationFnReportRaises(res) ==
    [outcome |-> "throw", valid |-> FALSE, error |-> TelemetryError, reports |-> 0]

\* The function validateConfiguration hands to withValidationErrorHandling,
\* after await this.createEmbeddings(...): return { valid: true }, or report
\* the error to telemetry and rethrow it.
ValidationFn(res) ==
    IF res.status = "returned"
    THEN [outcome |-> "return", valid |-> TRUE, error |-> NoError, reports |-> 0]
    ELSE [outcome |-> "throw", valid |-> FALSE, error |-> res.error, reports |-> 1]

\* withValidationErrorHandling (shared/validation-helpers): the value of the
\* validation function, or { valid: false, error } with the message the
\* error's classification selects.
ValidationMessage(error) == error.kind

withValidationErrorHandling(outcome) ==
    IF outcome.outcome = "return"
    THEN [status |-> "returned", valid |-> outcome.valid, error |-> "",
          reports |-> outcome.reports]
    ELSE [status |-> "returned", valid |-> FALSE,
          error |-> ValidationMessage(outcome.error), reports |-> outcome.reports]

(***************************************************************************)
(* createBedrockRuntimeClient(options).  An optional string is Undefined,  *)
(* empty or a value; an optional flag that is absent is falsy like false.  *)
(* The clientConfig is a record that has a field only when the code sets   *)
(* it.                                                                     *)
(***************************************************************************)
\* Truthiness of an optional string, as && and the conditional operator
\* test it.
IsSet(s) == s # Undefined /\ s # ""

\* Spreading false, "" or undefined adds no field.
NoFields == [k \in {} |-> Undefined]

\* ...(options.awsBedrockEndpoint && options.awsBedrockEndpointEnabled &&
\*     { endpoint: options.awsBedrockEndpoint })
EndpointFields(o) ==
    IF IsSet(o.awsBedrockEndpoint) /\ o.awsBedrockEndpointEnabled
    THEN [endpoint |-> o.awsBedrockEndpoint]
    ELSE NoFields

\* ...(options.awsSessionToken ? { sessionToken: options.awsSessionToken } : {})
SessionTokenFields(o) ==
    IF IsSet(o.awsSessionToken)
    THEN [sessionToken |-> o.awsSessionToken]
    ELSE NoFields

\* The fields each branch of the authentication chain sets.
ApiKeyAuth(o) ==
    [token |-> [token |-> o.awsApiKey],
     authSchemePreference |-> <<"httpBearerAuth">>,
     requestHandler |-> [requestTimeout |-> 0]]

ProfileAuth(o) ==
    [credentials |-> [provider |-> "fromIni", profile |-> o.awsProfile,
                      ignoreCache |-> TRUE]]

DirectAuth(o) ==
    [credentials |-> [accessKeyId |-> o.awsAccessKey,
                      secretAccessKey |-> o.awsSecretKey] @@ SessionTokenFields(o)]

EmptyAuth ==
    [credentials |-> [accessKeyId |-> "", secretAccessKey |-> "",
                      sessionToken |-> Undefined]]

\* new BedrockRuntimeClient(clientConfig)
BedrockRuntimeClient(clientConfig) == [created |-> TRUE, clientConfig |-> clientConfig]

NoClient == [created |-> FALSE, clientConfig |-> NoFields]

\* Variant of the chain: the profile is tested before the API key.
createBedrockRuntimeClientProfileFirst(o) ==
    LET clientConfig == [region |-> o.awsRegion, maxAttempts |-> 1] @@ EndpointFields(o)
        auth == IF o.awsUseProfile /\ IsSet(o.awsProfile) THEN ProfileAuth(o)
                ELSE IF o.awsUseApiKey /\ IsSet(o.awsApiKey) THEN ApiKeyAuth(o)
                ELSE IF IsSet(o.awsAccessKey) /\ IsSet(o.awsSecretKey) THEN DirectAuth(o)
                ELSE EmptyAuth
    IN BedrockRuntimeClient(clientConfig @@ auth)

createBedrockRuntimeClient(o) ==
    LET clientConfig == [region |-> o.awsRegion, maxAttempts |-> 1] @@ EndpointFields(o)
        auth == IF o.awsUseApiKey /\ IsSet(o.awsApiKey) THEN ApiKeyAuth(o)
                ELSE IF o.awsUseProfile /\ IsSet(o.awsProfile) THEN ProfileAuth(o)
                ELSE IF IsSet(o.awsAccessKey) /\ IsSet(o.awsSecretKey) THEN DirectAuth(o)
                ELSE EmptyAuth
    IN BedrockRuntimeClient(clientConfig @@ auth)

\* The options the engine's constructor passes: region, endpoint (enabled
\* when an endpoint URL is given) and the direct credentials; it passes no
\* profile and no API key.
EngineOptions(region, endpointUrl, accessKeyId, secretAccessKey, sessionToken) ==
    [awsRegion |-> region,
     awsBedrockEndpoint |-> endpointUrl,
     awsBedrockEndpointEnabled |-> IsSet(endpointUrl),
     awsAccessKey |-> accessKeyId,
     awsSecretKey |-> secretAccessKey,
     awsSessionToken |-> sessionToken,
     awsProfile |-> Undefined,
     awsUseProfile |-> FALSE,
     awsApiKey |-> Undefined,
     awsUseApiKey |-> FALSE]

Region == "us-east-1"

\* The engine is constructed with a region only, as the test's engine is.
Constructed ==
    /\ options = EngineOptions(Region, Undefined, Undefined, Undefined, Undefined)
    /\ client = createBedrockRuntimeClient(options)

(***************************************************************************)
(* The state after construction.                                           *)
(***************************************************************************)
\* The constructor merges the caller's options over the defaults.  An
\* engine for a Titan model is given a maxConcurrency and keeps the default
\* batchSize; every other engine is given a batchSize and keeps the default
\* maxConcurrency.
Configs ==
    [modelId : {TitanModel}, batchSize : {DefaultBatchSize},
     maxConcurrency : 0..MaxConcurrency, maxRetries : 0..MaxRetriesBound]
    \cup
    [modelId : ConfigModels \ {TitanModel}, batchSize : 1..MaxBatchSize,
     maxConcurrency : {DefaultMaxConcurrency}, maxRetries : 0..MaxRetriesBound]

Init ==
    /\ config \in Configs
    /\ Constructed
    /\ phase = "idle"
    /\ texts = <<>>
    /\ modelToUse = Undefined
    /\ semaphore = NoSemaphore
    /\ calls = <<>>
    /\ loopI = 0
    /\ allEmbeddings = <<>>
    /\ totalTokens = 0
    /\ result = Pending
    /\ validation = NoValidation
    /\ gates = <<>>

(***************************************************************************)
(* createEmbeddings(texts, model), up to its first await.                  *)
(***************************************************************************)
\* Variant of the slice: the end index is batchSize, not i + batchSize.
BatchEndAtSize(n, i, batchSize) == Slice(n, i, batchSize)

\* texts.slice(i, i + batchSize)
Batch(n, i, batchSize) == Slice(n, i, i + batchSize)

\* const semaphore = new Semaphore(this.config.maxConcurrency!) and the
\* texts.map over n texts: a new gate and the n calls made through it.
GatedCalls(n) ==
    AcquireAll([sem |-> NewSemaphore(config.maxConcurrency),
                calls |-> [j \in 1..n |-> NewCall(<<j>>)]],
               1, n, config.maxRetries)

processTitanEmbeddings(n) ==
    LET g == GatedCalls(n)
    IN /\ semaphore' = g.sem
       /\ calls' = g.calls
       /\ IF n = 0
          THEN phase' = "returned" /\ result' = Returned(<<>>, 0)
          ELSE phase' = "running" /\ result' = Pending
       /\ UNCHANGED <<loopI, allEmbeddings, totalTokens>>

\* Variant of the loop condition: i <= texts.length, so that an empty list
\* still sends one (empty) batch.
processCohereEmbeddingsInclusive(n) ==
    /\ loopI' = 0
    /\ calls' = <<StartCall(NewCall(Batch(n, 0, config.batchSize)), config.maxRetries)>>
    /\ phase' = "running"
    /\ result' = Pending
    /\ UNCHANGED <<semaphore, allEmbeddings, totalTokens>>

\* Variant of the loop: every batch is sent at once and the results are
\* joined, as Promise.all over the batches would do.
processCohereEmbeddingsAllAtOnce(n) ==
    /\ loopI' = 0
    /\ calls' = [k \in 1..((n + config.batchSize - 1) \div config.batchSize) |->
                    StartCall(NewCall(Batch(n, (k - 1) * config.batchSize, config.batchSize)),
                              config.maxRetries)]
    /\ IF 0 < n
       THEN phase' = "running" /\ result' = Pending
       ELSE phase' = "returned" /\ result' = Returned(<<>>, 0)
    /\ UNCHANGED <<semaphore, allEmbeddings, totalTokens>>

processCohereEmbeddings(n) ==
    /\ loopI' = 0
    /\ IF 0 < n
       THEN LET first == StartCall(NewCall(Batch(n, 0, config.batchSize)),
                                   config.maxRetries)
            IN /\ calls' = <<first>>
               /\ phase' = "running"
               /\ result' = Pending
       ELSE /\ calls' = <<>>
            /\ phase' = "returned"
            /\ result' = Returned(<<>>, 0)
    /\ UNCHANGED <<semaphore, allEmbeddings, totalTokens>>

\* createEmbeddings on the texts ts.
createEmbeddingsOf(ts, model) ==
    /\ phase = "idle"
    /\ texts' = ts
    /\ modelToUse' = EffectiveModel(model, config.modelId)
    /\ UNCHANGED <<config, gates, options, client>>
    /\ IF isTitanModel(modelToUse') THEN processTitanEmbeddings(Len(ts))
       ELSE IF isCohereModel(modelToUse') THEN processCohereEmbeddings(Len(ts))
       ELSE /\ phase' = "raised"
            /\ result' = Raised(UnsupportedModelError(modelToUse'))
            /\ UNCHANGED <<semaphore, calls, loopI, allEmbeddings, totalTokens>>

\* A caller's createEmbeddings(texts, model) with the first n texts of Corpus.
createEmbeddings(n, model) ==
    /\ n <= IF isTitanModel(EffectiveModel(model, config.modelId))
            THEN MaxGatedTexts ELSE MaxTexts
    /\ createEmbeddingsOf(SubSeq(Corpus, 1, n), model)
    /\ UNCHANGED validation

\* validateConfiguration up to its await:
\* this.createEmbeddings(["test"], this.config.modelId)
validateConfiguration ==
    /\ validation = NoValidation
    /\ createEmbeddingsOf(ValidationTexts, config.modelId)
    /\ validation' = Validating

\* validateConfiguration after the await: the validation function returns or
\* rethrows, and withValidationErrorHandling returns the result object.
ValidationSettles ==
    /\ validation = Validating
    /\ result.status # "pending"
    /\ validation' = withValidationErrorHandling(ValidationFn(result))
    /\ UNCHANGED <<config, phase, texts, modelToUse, semaphore, calls, loopI,
                   allEmbeddings, totalTokens, result, gates, options, client>>

(***************************************************************************)
(* The transport (this.client.send) answers the call in flight of logical  *)
(* call j; invokeModelWithRetries resumes.                                 *)
(***************************************************************************)
\* The bodies a successful transport call can carry.  For Titan the vector
\* field holds one vector; for Cohere it holds a list of vectors, which may
\* be shorter or longer than the list of texts of the request.
VectorsFor(items, count) ==
    [m \in 1..count |-> IF m <= Len(items) THEN Vector(items[m]) ELSE StrayVector]

Payloads(c, modelId) ==
    IF isTitanModel(modelId)
    THEN {ArrayField(VectorsFor(c.items, 1)), MissingField, NotArrayField}
    ELSE {ArrayField(VectorsFor(c.items, k)) :
              k \in {Len(c.items) - 1, Len(c.items), Len(c.items) + 1} \cap Nat}
         \cup {MissingField, NotArrayField}

WellFormed(c, payload) ==
    payload.field = "array" /\ Len(payload.vectors) = Len(c.items)

\* The transport calls answered so far with a failure or with a body that
\* is not well formed.
Faults ==
    SumSeq([j \in 1..Len(calls) |->
               Cardinality(Events(calls[j], "fail")) +
               (IF calls[j].payload # NoPayload /\ ~WellFormed(calls[j], calls[j].payload)
                THEN 1 ELSE 0)])

\* return await this.client.send(command)
TransportSucceeds(j, payload) ==
    /\ j \in 1..Len(calls)
    /\ calls[j].pc = "sending"
    /\ payload \in Payloads(calls[j], modelToUse)
    /\ WellFormed(calls[j], payload) \/ Faults < MaxFaults
    /\ calls' = [calls EXCEPT ![j].pc = "received", ![j].payload = payload,
                             ![j].trace = Append(@, OkEvent(calls[j].attempt))]
    /\ UNCHANGED <<config, phase, texts, modelToUse, semaphore, loopI,
                   allEmbeddings, totalTokens, result, validation, gates, options, client>>

\* Variant of the catch block: a gated call that starts a backoff wait gives
\* its permit back for the time of the wait.
TransportFailsYieldsPermit(j, error) ==
    /\ j \in 1..Len(calls)
    /\ calls[j].pc = "sending"
    /\ error \in TransportErrors
    /\ Faults < MaxFaults
    /\ LET failed == [calls EXCEPT
                         ![j].trace = Append(@, FailEvent(calls[j].attempt, error.status))]
           waiting == [failed EXCEPT ![j].pc = "backoff"]
           g == IF semaphore.exists
                THEN release([sem |-> semaphore, calls |-> waiting], config.maxRetries)
                ELSE [sem |-> semaphore, calls |-> waiting]
       IN IF ShouldRetry(error, calls[j].attempt, config.maxRetries)
          THEN calls' = g.calls /\ semaphore' = g.sem
          ELSE /\ calls' = [failed EXCEPT ![j] = ReportAndThrow(@, error, config.maxRetries)]
               /\ semaphore' = semaphore
    /\ UNCHANGED <<config, phase, texts, modelToUse, loopI,
                   allEmbeddings, totalTokens, result, validation, gates, options, client>>

\* catch (error): start the backoff timer, or format and throw
TransportFails(j, error) ==
    /\ j \in 1..Len(calls)
    /\ calls[j].pc = "sending"
    /\ error \in TransportErrors
    /\ Faults < MaxFaults
    /\ LET failed == [calls EXCEPT
                         ![j].trace = Append(@, FailEvent(calls[j].attempt, error.status))]
       IN calls' = IF ShouldRetry(error, calls[j].attempt, config.maxRetries)
                   THEN [failed EXCEPT ![j].pc = "backoff"]
                   ELSE [failed EXCEPT ![j] = ReportAndThrow(@, error, config.maxRetries)]
    /\ UNCHANGED <<config, phase, texts, modelToUse, semaphore, loopI,
                   allEmbeddings, totalTokens, result, validation, gates, options, client>>

\* The timer of await new Promise((resolve) => setTimeout(resolve, delayMs))
\* fires: continue, attempt++, and the loop issues the next transport call.
BackoffElapsed(j) ==
    /\ j \in 1..Len(calls)
    /\ calls[j].pc = "backoff"
    /\ LET c == calls[j]
           waited == [c EXCEPT !.trace = Append(@, WaitEvent(c.attempt, BackoffDelay(c.attempt))),
                               !.attempt = @ + 1]
       IN /\ calls' = [calls EXCEPT ![j] = EnterLoop(waited, config.maxRetries)]
    /\ UNCHANGED <<config, phase, texts, modelToUse, semaphore, loopI,
                   allEmbeddings, totalTokens, result, validation, gates, options, client>>

(***************************************************************************)
(* SingleInput family (Titan).                                             *)
(***************************************************************************)
\* Variant of the shape test: only a missing field is rejected.
IsPresent(payload) == payload.field # "missing"

\* if (!Array.isArray(embedding))
IsArray(payload) == payload.field = "array"

\* embedTitanText after await this.invokeModelWithRetries(input)
embedTitanText(j) ==
    /\ isTitanModel(modelToUse)
    /\ j \in 1..Len(calls)
    /\ calls[j].pc = "received"
    /\ calls' = IF IsArray(calls[j].payload)
                THEN [calls EXCEPT ![j].pc = "decoded",
                                   ![j].embeddings = calls[j].payload.vectors,
                                   ![j].tokens = EstimateTokens(texts[calls[j].items[1]])]
                ELSE [calls EXCEPT ![j].pc = "throwing",
                                   ![j].error = InvalidResponseError("Titan")]
    /\ UNCHANGED <<config, phase, texts, modelToUse, semaphore, loopI,
                   allEmbeddings, totalTokens, result, validation, gates, options, client>>

\* Variant of the gated body: it returns the permit itself, before acquire's
\* finally block does.
TitanBodyReturnsPermit(j) ==
    /\ isTitanModel(modelToUse)
    /\ j \in 1..Len(calls)
    /\ calls[j].pc = "decoded"
    /\ totalTokens' = totalTokens + calls[j].tokens
    /\ calls' = [calls EXCEPT ![j].pc = "returning"]
    /\ semaphore' = [semaphore EXCEPT !.permits = @ + 1]
    /\ UNCHANGED <<config, phase, texts, modelToUse, loopI,
                   allEmbeddings, result, validation, gates, options, client>>

\* The gated body after await this.embedTitanText(text, modelId):
\* totalTokens += result.tokens; return result.embedding
TitanBody(j) ==
    /\ isTitanModel(modelToUse)
    /\ j \in 1..Len(calls)
    /\ calls[j].pc = "decoded"
    /\ totalTokens' = totalTokens + calls[j].tokens
    /\ calls' = [calls EXCEPT ![j].pc = "returning"]
    /\ UNCHANGED <<config, phase, texts, modelToUse, semaphore, loopI,
                   allEmbeddings, result, validation, gates, options, client>>

\* The body of logical call j has returned or thrown: acquire settles the
\* call's promise and runs its finally block; Promise.all rejects on the
\* first rejection and fulfils when every promise has fulfilled, and
\* createEmbeddings returns or raises accordingly.
SemaphoreRelease(j) ==
    /\ isTitanModel(modelToUse)
    /\ j \in 1..Len(calls)
    /\ calls[j].pc \in {"returning", "throwing"}
    /\ LET g == settle([sem |-> semaphore, calls |-> calls], j, config.maxRetries)
       IN /\ semaphore' = g.sem
          /\ calls' = g.calls
          /\ result' = PromiseAll(result, g.calls, j, totalTokens)
          /\ phase' = IF result'.status = "pending" THEN phase ELSE result'.status
    /\ UNCHANGED <<config, texts, modelToUse, loopI, allEmbeddings, totalTokens,
                   validation, gates, options, client>>

(***************************************************************************)
(* BatchInput family (Cohere).                                             *)
(***************************************************************************)
\* texts.reduce((sum, text) => sum + Math.ceil(text.length / 4), 0)
BatchTokens(items) == SumSeq([m \in 1..Len(items) |-> EstimateTokens(texts[items[m]])])

\* embedCohereBatch after await this.invokeModelWithRetries(input)
embedCohereBatch(j) ==
    /\ isCohereModel(modelToUse)
    /\ j \in 1..Len(calls)
    /\ calls[j].pc = "received"
    /\ calls' = IF IsArray(calls[j].payload)
                THEN [calls EXCEPT ![j].pc = "decoded",
                                   ![j].embeddings = calls[j].payload.vectors,
                                   ![j].tokens = BatchTokens(calls[j].items)]
                ELSE [calls EXCEPT ![j].pc = "throwing",
                                   ![j].error = InvalidResponseError("Cohere")]
    /\ UNCHANGED <<config, phase, texts, modelToUse, semaphore, loopI,
                   allEmbeddings, totalTokens, result, validation, gates, options, client>>

\* The loop of processCohereEmbeddings after await this.embedCohereBatch:
\* push the embeddings, add the tokens, i += batchSize, and either slice and
\* send the next batch or return.
CohereLoop(j) ==
    /\ isCohereModel(modelToUse)
    /\ j \in 1..Len(calls)
    /\ calls[j].pc = "decoded"
    /\ allEmbeddings' = allEmbeddings \o calls[j].embeddings
    /\ totalTokens' = totalTokens + calls[j].tokens
    /\ loopI' = loopI + config.batchSize
    /\ LET done == [calls EXCEPT ![j].pc = "fulfilled"]
       IN IF loopI' < Len(texts)
          THEN /\ calls' = Append(done,
                               StartCall(NewCall(Batch(Len(texts), loopI', config.batchSize)),
                                         config.maxRetries))
               /\ UNCHANGED <<phase, result>>
          ELSE /\ calls' = done
               /\ phase' = "returned"
               /\ result' = Returned(allEmbeddings', totalTokens')
    /\ UNCHANGED <<config, texts, modelToUse, semaphore, validation, gates, options, client>>

\* Variant of the propagation: the loop catches the error of a batch, keeps
\* it, and goes on with the next batch.
CohereThrowAndContinue(j) ==
    /\ isCohereModel(modelToUse)
    /\ j \in 1..Len(calls)
    /\ calls[j].pc = "throwing"
    /\ loopI' = loopI + config.batchSize
    /\ phase' = "raised"
    /\ result' = Raised(calls[j].error)
    /\ LET done == [calls EXCEPT ![j].pc = "rejected"]
       IN calls' = IF loopI' < Len(texts)
                   THEN Append(done,
                               StartCall(NewCall(Batch(Len(texts), loopI', config.batchSize)),
                                         config.maxRetries))
                   ELSE done
    /\ UNCHANGED <<config, texts, modelToUse, semaphore, allEmbeddings, totalTokens,
                   validation, gates, options, client>>

\* The error of embedCohereBatch propagates out of the loop and out of
\* createEmbeddings.
CohereThrow(j) ==
    /\ isCohereModel(modelToUse)
    /\ j \in 1..Len(calls)
    /\ calls[j].pc = "throwing"
    /\ calls' = [calls EXCEPT ![j].pc = "rejected"]
    /\ phase' = "raised"
    /\ result' = Raised(calls[j].error)
    /\ UNCHANGED <<config, texts, modelToUse, semaphore, loopI,
                   allEmbeddings, totalTokens, validation, gates, options, client>>

(***************************************************************************)
(* The specification.                                                      *)
(***************************************************************************)
CallIds == 1..(MaxTexts + MaxGatedTexts)

AllPayloads ==
    {MissingField, NotArrayField}
    \cup UNION {{ArrayField(VectorsFor(c.items, k)) : k \in 0..(Len(c.items) + 1)} :
                   c \in {calls[j] : j \in 1..Len(calls)}}

Next ==
    \/ \E n \in 0..(MaxTexts + MaxGatedTexts), model \in ModelArgs : createEmbeddings(n, model)
    \/ \E j \in CallIds, payload \in AllPayloads : TransportSucceeds(j, payload)
    \/ \E j \in CallIds, error \in TransportErrors : TransportFails(j, error)
    \/ \E j \in CallIds : BackoffElapsed(j)
    \/ \E j \in CallIds : embedTitanText(j)
    \/ \E j \in CallIds : TitanBody(j)
    \/ \E j \in CallIds : SemaphoreRelease(j)
    \/ \E j \in CallIds : embedCohereBatch(j)
    \/ \E j \in CallIds : CohereLoop(j)
    \/ \E j \in CallIds : CohereThrow(j)
    \/ validateConfiguration
    \/ ValidationSettles

Spec == Init /\ [][Next]_vars

(***************************************************************************)
(* The engine under a scheduler that is fair: the event loop runs every    *)
(* continuation that is ready, every timer fires, and the transport        *)
(* answers every call.  Callers are not obliged to call.                   *)
(***************************************************************************)
Progress ==
    \/ \E j \in CallIds, payload \in AllPayloads : TransportSucceeds(j, payload)
    \/ \E j \in CallIds, error \in TransportErrors : TransportFails(j, error)
    \/ \E j \in CallIds : BackoffElapsed(j)
    \/ \E j \in CallIds : embedTitanText(j)
    \/ \E j \in CallIds : TitanBody(j)
    \/ \E j \in CallIds : SemaphoreRelease(j)
    \/ \E j \in CallIds : embedCohereBatch(j)
    \/ \E j \in CallIds : CohereLoop(j)
    \/ \E j \in CallIds : CohereThrow(j)
    \/ ValidationSettles

SpecFair == Init /\ [][Next]_vars /\ WF_vars(Progress)

(***************************************************************************)
(* The engine with a telemetry collaborator that may raise: every call of  *)
(* TelemetryService.instance.captureEvent either returns, as above, or     *)
(* throws.                                                                 *)
(***************************************************************************)
\* catch (error) of invokeModelWithRetries for a failure that is not
\* retried, when captureEvent raises.
TransportFailsReportRaises(j, error) ==
    /\ j \in 1..Len(calls)
    /\ calls[j].pc = "sending"
    /\ error \in TransportErrors
    /\ Faults < MaxFaults
    /\ ~ShouldRetry(error, calls[j].attempt, config.maxRetries)
    /\ calls' = [calls EXCEPT
                    ![j] = ReportRaises([@ EXCEPT
                               !.trace = Append(@, FailEvent(calls[j].attempt, error.status))])]
    /\ UNCHANGED <<config, phase, texts, modelToUse, semaphore, loopI,
                   allEmbeddings, totalTokens, result, validation, gates, options, client>>

\* validateConfiguration after the await, when createEmbeddings raised and
\* captureEvent raises in the catch block.
ValidationSettlesReportRaises ==
    /\ validation = Validating
    /\ result.status = "raised"
    /\ validation' = withValidationErrorHandling(ValidationFnReportRaises(result))
    /\ UNCHANGED <<config, phase, texts, modelToUse, semaphore, calls, loopI,
                   allEmbeddings, totalTokens, result, gates, options, client>>

TelemetryNext ==
    \/ Next
    \/ \E j \in CallIds, error \in TransportErrors : TransportFailsReportRaises(j, error)
    \/ ValidationSettlesReportRaises

SpecTelemetry == Init /\ [][TelemetryNext]_vars

(***************************************************************************)
(* The engine with any maxConcurrency and maxRetries the constructor       *)
(* accepts: the options are merged over the defaults unchecked, so a       *)
(* caller may pass values below zero.                                      *)
(***************************************************************************)
NegativeConcurrency == 0 - 1
NegativeRetries == 0 - 1

UncheckedConfigs ==
    Configs
    \cup
    [modelId : {TitanModel}, batchSize : {DefaultBatchSize},
     maxConcurrency : {NegativeConcurrency}, maxRetries : 0..MaxRetriesBound]
    \cup
    {[c EXCEPT !.maxRetries = NegativeRetries] : c \in Configs}

UncheckedInit ==
    /\ config \in UncheckedConfigs
    /\ Constructed
    /\ phase = "idle"
    /\ texts = <<>>
    /\ modelToUse = Undefined
    /\ semaphore = NoSemaphore
    /\ calls = <<>>
    /\ loopI = 0
    /\ allEmbeddings = <<>>
    /\ totalTokens = 0
    /\ result = Pending
    /\ validation = NoValidation
    /\ gates = <<>>

SpecUnchecked == UncheckedInit /\ [][Next]_vars

(***************************************************************************)
(* createBedrockRuntimeClient on its own: any options, then the call.      *)
(***************************************************************************)
OptionalString(value) == {Undefined, "", value}

AllOptions ==
    [awsRegion : {Undefined, Region},
     awsBedrockEndpoint : OptionalString("https://bedrock.example"),
     awsBedrockEndpointEnabled : BOOLEAN,
     awsAccessKey : OptionalString("AKIA"),
     awsSecretKey : OptionalString("secret"),
     awsSessionToken : OptionalString("session"),
     awsProfile : OptionalString("dev"),
     awsUseProfile : BOOLEAN,
     awsApiKey : OptionalString("key"),
     awsUseApiKey : BOOLEAN]

ClientInit ==
    /\ config = [modelId |-> TitanModel, batchSize |-> DefaultBatchSize,
                 maxConcurrency |-> DefaultMaxConcurrency,
                 maxRetries |-> MAX_BATCH_RETRIES]
    /\ phase = "idle"
    /\ texts = <<>>
    /\ modelToUse = Undefined
    /\ semaphore = NoSemaphore
    /\ calls = <<>>
    /\ loopI = 0
    /\ allEmbeddings = <<>>
    /\ totalTokens = 0
    /\ result = Pending
    /\ validation = NoValidation
    /\ gates = <<>>
    /\ options \in AllOptions
    /\ client = NoClient

\* this.client = createBedrockRuntimeClient({...})
createClient ==
    /\ ~client.created
    /\ client' = createBedrockRuntimeClient(options)
    /\ UNCHANGED <<config, phase, texts, modelToUse, semaphore, calls, loopI,
                   allEmbeddings, totalTokens, result, validation, options, gates>>

ClientNext == createClient

SpecClient == ClientInit /\ [][ClientNext]_vars

(***************************************************************************)
(* The Semaphore on its own: one gate of P permits, acquire requests that  *)
(* arrive at any time, one or several in a synchronous run, and bodies     *)
(* that return or throw at any time.  The body is the engine's, seen       *)
(* from its first transport call to its outcome.                           *)
(***************************************************************************)
GateConfigs ==
    [modelId : {TitanModel}, batchSize : {DefaultBatchSize},
     maxConcurrency : 0..MaxConcurrency, maxRetries : {MAX_BATCH_RETRIES}]

EngineIdle ==
    /\ config \in GateConfigs
    /\ Constructed
    /\ phase = "idle"
    /\ texts = <<>>
    /\ modelToUse = Undefined
    /\ semaphore = NoSemaphore
    /\ calls = <<>>
    /\ loopI = 0
    /\ allEmbeddings = <<>>
    /\ totalTokens = 0
    /\ result = Pending
    /\ validation = NoValidation

GateInit ==
    /\ EngineIdle
    /\ gates = <<[sem |-> NewSemaphore(config.maxConcurrency), calls |-> <<>>]>>

\* m calls of semaphore.acquire(fn) on gate v in one synchronous run.
GateAcquire(v, m) ==
    /\ v \in 1..Len(gates)
    /\ m >= 1
    /\ Len(gates[v].calls) + m <= MaxRequests
    /\ LET n0 == Len(gates[v].calls)
           arrived == [gates[v] EXCEPT
                          !.calls = @ \o [k \in 1..m |-> NewCall(<<n0 + k>>)]]
       IN gates' = [gates EXCEPT
                       ![v] = AcquireAll(arrived, n0 + 1, n0 + m, config.maxRetries)]
    /\ UNCHANGED engine

\* The errors a gated body ends in: a terminal transport error or a
\* malformed response.
BodyErrors ==
    {formatEmbeddingError(AuthError, MAX_BATCH_RETRIES), InvalidResponseError("Titan")}

\* await fn(): the body of call j of gate v returns.
BodyReturns(v, j) ==
    /\ v \in 1..Len(gates)
    /\ j \in 1..Len(gates[v].calls)
    /\ gates[v].calls[j].pc = "sending"
    /\ gates' = [gates EXCEPT ![v].calls[j].pc = "returning"]
    /\ UNCHANGED engine

\* await fn(): the body of call j of gate v throws.
BodyThrows(v, j, error) ==
    /\ v \in 1..Len(gates)
    /\ j \in 1..Len(gates[v].calls)
    /\ gates[v].calls[j].pc = "sending"
    /\ error \in BodyErrors
    /\ gates' = [gates EXCEPT ![v].calls[j].pc = "throwing", ![v].calls[j].error = error]
    /\ UNCHANGED engine

\* acquire settles the promise of call j of gate v and runs its finally block.
GateRelease(v, j) ==
    /\ v \in 1..Len(gates)
    /\ j \in 1..Len(gates[v].calls)
    /\ gates[v].calls[j].pc \in {"returning", "throwing"}
    /\ gates' = [gates EXCEPT ![v] = settle(@, j, config.maxRetries)]
    /\ UNCHANGED engine

GateIds == 1..(MaxInvocations + 1)
RequestIds == 1..(MaxRequests + MaxGatedTexts)

GateNext ==
    \/ \E v \in GateIds, m \in RequestIds : GateAcquire(v, m)
    \/ \E v \in GateIds, j \in RequestIds : BodyReturns(v, j)
    \/ \E v \in GateIds, j \in RequestIds, error \in BodyErrors : BodyThrows(v, j, error)
    \/ \E v \in GateIds, j \in RequestIds : GateRelease(v, j)

SpecGate == GateInit /\ [][GateNext]_vars

(***************************************************************************)
(* The gate with the event loop's guarantee: a body that has started ends  *)
(* (its retry loop is bounded and the transport answers), and a settled    *)
(* body's continuation in acquire is run.  Arrivals are not forced.        *)
(***************************************************************************)
GateProgress ==
    \/ \E v \in GateIds, j \in RequestIds : BodyReturns(v, j)
    \/ \E v \in GateIds, j \in RequestIds, error \in BodyErrors : BodyThrows(v, j, error)
    \/ \E v \in GateIds, j \in RequestIds : GateRelease(v, j)

SpecGateFair == GateInit /\ [][GateNext]_vars /\ WF_vars(GateProgress)

(***************************************************************************)
(* Overlapping invocations of processTitanEmbeddings on one engine: each   *)
(* invocation creates its Semaphore and makes its calls through it.        *)
(***************************************************************************)
OverlapInit ==
    /\ EngineIdle
    /\ gates = <<>>

\* createEmbeddings(texts, model) for a Titan model and n texts, while
\* earlier invocations are still running.
Invoke(n) ==
    /\ Len(gates) < MaxInvocations
    /\ n \in 1..MaxGatedTexts
    /\ gates' = Append(gates, GatedCalls(n))
    /\ UNCHANGED engine

OverlapNext ==
    \/ \E n \in RequestIds : Invoke(n)
    \/ \E v \in GateIds, j \in RequestIds : BodyReturns(v, j)
    \/ \E v \in GateIds, j \in RequestIds, error \in BodyErrors : BodyThrows(v, j, error)
    \/ \E v \in GateIds, j \in RequestIds : GateRelease(v, j)

SpecOverlap == OverlapInit /\ [][OverlapNext]_vars

(***************************************************************************)
(* Vocabulary of the properties.                                           *)
(***************************************************************************)
CallSet == 1..Len(calls)

Last(seq) == seq[Len(seq)]

\* The transport answered the last attempt of call c with a success.
TransportSucceeded(c) == c.trace # <<>> /\ Last(c.trace).type = "ok"

\* Call c has ended in an error.
Failed(c) == c.pc \in {"throwing", "rejected"}

\* Call c has been decoded, or has ended.
PastDecode(c) == c.pc \in {"decoded", "returning", "fulfilled", "throwing", "rejected"}

\* The trace of a call throttled k times and then answered with a success:
\* attempt, 429, wait, attempt, 429, wait, ..., attempt, success.
RECURSIVE ThrottledThenOk(_, _)
ThrottledThenOk(j, k) ==
    IF j = k THEN <<SendEvent(k), OkEvent(k)>>
    ELSE <<SendEvent(j), FailEvent(j, 429), WaitEvent(j, INITIAL_RETRY_DELAY_MS * 2^j)>>
         \o ThrottledThenOk(j + 1, k)

CeilDiv(a, b) == (a + b - 1) \div b

(***************************************************************************)
(* C1.  For a non-empty texts list and a supported model, when every       *)
(* transport call has ended in a success with a well-formed body,          *)
(* createEmbeddings returns exactly texts.length embeddings and the        *)
(* embedding at index i is the vector produced for texts[i], whatever the  *)
(* completion order of the calls and whatever maxConcurrency.              *)
(***************************************************************************)
ResponsesWellFormed ==
    \A j \in CallSet : PastDecode(calls[j]) => WellFormed(calls[j], calls[j].payload)

C1_OrderPreserved ==
    (phase = "returned" /\ Len(texts) > 0 /\ ResponsesWellFormed)
        => /\ Len(result.embeddings) = Len(texts)
           /\ \A i \in 1..Len(texts) : result.embeddings[i] = Vector(i)

\* Two texts through a gate of two permits, the first text throttled twice
\* while the second is answered at once.
C1_Witness ==
    /\ phase = "returned"
    /\ isTitanModel(modelToUse)
    /\ Len(texts) = 2
    /\ config.maxConcurrency = 2
    /\ Throttles(calls[1]) = 2
    /\ Throttles(calls[2]) = 0

(***************************************************************************)
(* C2.  In every state of a gate created with P permits, at most P gated   *)
(* bodies have started and not yet completed.                              *)
(***************************************************************************)
C2_AtMostPermitsRunning ==
    semaphore.exists => Cardinality(Running(calls)) <= config.maxConcurrency

\* The gate is full, one of its bodies is waiting out a backoff, and a
\* request is queued.
C2_Witness ==
    /\ semaphore.exists
    /\ config.maxConcurrency = 1
    /\ Cardinality(Running(calls)) = 1
    /\ Len(semaphore.waiting) > 0
    /\ \E j \in CallSet : calls[j].pc = "backoff"

(***************************************************************************)
(* C3.  A logical call that was throttled (429) on its first k attempts,   *)
(* k < maxRetries, and then answered with a success has made exactly k+1   *)
(* transport calls and waited exactly k times, the wait after attempt j    *)
(* being INITIAL_RETRY_DELAY_MS * 2^j and completing before attempt j+1    *)
(* is issued; the call holds the successful response.                      *)
(***************************************************************************)
C3_ThrottledThenSuccess ==
    \A j \in CallSet :
        TransportSucceeded(calls[j]) =>
            LET k == Throttles(calls[j])
            IN /\ k < config.maxRetries
               /\ Sends(calls[j]) = k + 1
               /\ Waits(calls[j]) = k
               /\ calls[j].trace = ThrottledThenOk(0, k)
               /\ calls[j].payload # NoPayload

\* Throttled twice, then a success, with maxRetries = 3.
C3_Witness ==
    /\ config.maxRetries = 3
    /\ \E j \in CallSet :
          /\ TransportSucceeded(calls[j])
          /\ Throttles(calls[j]) = 2
          /\ calls[j].pc = "fulfilled"

(***************************************************************************)
(* C4.  A transport failure whose status is not 429 is terminal on its     *)
(* first occurrence: it is the last event of its logical call, which makes *)
(* no further transport attempt and no backoff wait, whatever maxRetries   *)
(* and whatever the attempt it occurs on.                                  *)
(***************************************************************************)
C4_NonThrottlingIsTerminal ==
    \A j \in CallSet :
        \A k \in Events(calls[j], "fail") :
            calls[j].trace[k].status # 429
                => /\ k = Len(calls[j].trace)
                   /\ Failed(calls[j])
                   /\ calls[j].error.kind # "none"

\* A status-less failure on the second attempt of three, after one throttle.
C4_Witness ==
    /\ config.maxRetries = 3
    /\ \E j \in CallSet :
          /\ calls[j].pc = "rejected"
          /\ Len(calls[j].trace) = 5
          /\ calls[j].trace[5] = FailEvent(1, NoStatus)

(***************************************************************************)
(* C5.  With maxRetries = 3 and a single text, when the transport raises a *)
(* generic (status-less) failure on every attempt, createEmbeddings ends   *)
(* in a terminal error whose message carries "3 attempts" and the          *)
(* underlying message text.  The claim as written adds that the transport  *)
(* call count is 3; the code makes one transport call.                     *)
(***************************************************************************)
\* Every attempt of call c so far was answered with the generic failure.
OnlyGenericFailures(c) ==
    /\ Events(c, "fail") # {}
    /\ Events(c, "ok") = {}
    /\ \A k \in Events(c, "fail") : c.trace[k].status = NoStatus
    /\ c.error.message = GenericError.message

C5_Case ==
    /\ Len(texts) = 1
    /\ config.maxRetries = MAX_BATCH_RETRIES
    /\ Len(calls) = 1
    /\ OnlyGenericFailures(calls[1])
    /\ phase = "raised"

C5_TerminalMessage ==
    /\ result.status = "raised"
    /\ result.error.kind = "failedWithError"
    /\ result.error.attempts = 3
    /\ result.error.message = GenericError.message

\* C5 as written: the terminal error carries "3 attempts" and the message,
\* and three transport calls were made.
C5_ThreeTransportCalls ==
    C5_Case => (C5_TerminalMessage /\ Sends(calls[1]) = 3)

\* C5 as amended: the terminal error carries "3 attempts" and the message,
\* and one transport call was made, with no backoff wait.
C5_OneTransportCall ==
    C5_Case => (C5_TerminalMessage /\ Sends(calls[1]) = 1 /\ Waits(calls[1]) = 0)

C5_Witness == C5_Case /\ isTitanModel(modelToUse)

(***************************************************************************)
(* C6.  When the transport raises 429 on every attempt of a logical call   *)
(* and maxRetries >= 1, the call makes exactly maxRetries transport calls  *)
(* and exactly maxRetries - 1 backoff waits and then ends in a terminal    *)
(* error; with maxRetries = 1 one 429 is terminal, with one transport call *)
(* and no wait.  Until then the call is neither ended nor over its budget. *)
(***************************************************************************)
\* Every attempt of call c so far was answered with a 429.
OnlyThrottled(c) ==
    /\ Events(c, "fail") # {}
    /\ Events(c, "ok") = {}
    /\ \A k \in Events(c, "fail") : c.trace[k].status = 429

C6_ThrottledToExhaustion ==
    \A j \in CallSet :
        (config.maxRetries >= 1 /\ OnlyThrottled(calls[j])) =>
            IF Throttles(calls[j]) = config.maxRetries
            THEN /\ Failed(calls[j])
                 /\ Sends(calls[j]) = config.maxRetries
                 /\ Waits(calls[j]) = config.maxRetries - 1
                 /\ calls[j].error.status = 429
                 /\ calls[j].error.kind # "none"
            ELSE /\ ~Failed(calls[j])
                 /\ Throttles(calls[j]) < config.maxRetries
                 /\ Sends(calls[j]) <= config.maxRetries

\* Three 429s with maxRetries = 3: three transport calls, two waits.
C6_Witness ==
    /\ config.maxRetries = 3
    /\ \E j \in CallSet :
          /\ OnlyThrottled(calls[j])
          /\ calls[j].pc = "rejected"
          /\ Sends(calls[j]) = 3
          /\ Waits(calls[j]) = 2

(***************************************************************************)
(* C7.  createEmbeddings with an effective model id that matches neither   *)
(* family prefix raises the unsupported-model error carrying that id,      *)
(* makes no transport call and takes no gate permit, for any texts.        *)
(***************************************************************************)
C7_UnsupportedModel ==
    (phase # "idle" /\ modelToUse = "unsupported.model")
        => /\ phase = "raised"
           /\ result.status = "raised"
           /\ result.error.kind = "unsupportedModel"
           /\ result.error.message = "unsupported.model"
           /\ calls = <<>>
           /\ ~semaphore.exists

\* A Titan engine called with three texts and an unsupported override.
C7_Witness ==
    /\ phase = "raised"
    /\ modelToUse = "unsupported.model"
    /\ config.modelId = TitanModel
    /\ Len(texts) = 3

(***************************************************************************)
(* C8.  When a transport call succeeds but the body's vector field is      *)
(* missing or is not an array, the logical call fails with the             *)
(* invalid-response error without retrying: the success is the last event  *)
(* of the call, which has made one transport call per throttle before it   *)
(* plus this one (exactly 1 when it was the first attempt) and no backoff  *)
(* wait after it, for any maxRetries.                                      *)
(***************************************************************************)
LacksVectorField(c) ==
    TransportSucceeded(c) /\ c.payload.field \in {"missing", "notarray"}

WrongVectorCount(c) ==
    /\ TransportSucceeded(c)
    /\ c.payload.field = "array"
    /\ Len(c.payload.vectors) # Len(c.items)

C9_VectorCountChecked ==
    isCohereModel(modelToUse) =>
        /\ \A j \in CallSet :
              (WrongVectorCount(calls[j]) /\ calls[j].pc # "received")
                  => (Failed(calls[j]) /\ calls[j].error.kind = "invalidResponse")
        /\ phase = "returned" => Len(result.embeddings) = Len(texts)

(***************************************************************************)
(* C10.  For the BatchInput family with n texts and batchSize b >= 1 the   *)
(* k-th logical call carries the contiguous slice                          *)
(* texts[k*b .. min((k+1)*b, n) - 1] in input order; when every transport  *)
(* call succeeds exactly ceil(n/b) transport calls are made, every chunk   *)
(* but possibly the last has size b and the chunks together cover every    *)
(* text exactly once.                                                      *)
(***************************************************************************)
\* The k-th chunk (k from 1) as the 1-based indices kb-b+1 .. min(kb, n).
ExpectedChunk(k, n, b) == [m \in 1..(Min(k * b, n) - (k - 1) * b) |-> (k - 1) * b + m]

NoTransportFailure == \A j \in CallSet : Events(calls[j], "fail") = {}

C10_ContiguousChunks ==
    isCohereModel(modelToUse) =>
        LET n == Len(texts)
            b == config.batchSize
        IN /\ \A k \in CallSet : calls[k].items = ExpectedChunk(k, n, b)
           /\ (phase = "returned" /\ NoTransportFailure) =>
                 /\ Len(calls) = CeilDiv(n, b)
                 /\ SumSeq([k \in CallSet |-> Sends(calls[k])]) = CeilDiv(n, b)
                 /\ \A k \in 1..(Len(calls) - 1) : Len(calls[k].items) = b
                 /\ Flatten([k \in CallSet |-> calls[k].items]) = [i \in 1..n |-> i]

\* batchSize = 2 and three texts: two transport calls, of sizes 2 and 1.
C10_Witness ==
    /\ isCohereModel(modelToUse)
    /\ phase = "returned"
    /\ NoTransportFailure
    /\ config.batchSize = 2
    /\ Len(texts) = 3
    /\ Len(calls) = 2
    /\ Len(calls[1].items) = 2
    /\ Len(calls[2].items) = 1

(***************************************************************************)
(* C11.  For the BatchInput family the logical calls of one invocation are *)
(* strictly sequential: at most one transport call is in flight at any     *)
(* time, and the logical call of chunk k+1 exists (its first attempt is    *)
(* issued when it is created) only when the call of chunk k, retries and   *)
(* backoff waits included, has succeeded, been decoded and been consumed   *)
(* by the loop.                                                            *)
(***************************************************************************)
InFlight == {j \in CallSet : calls[j].pc = "sending"}

C11_BatchesSequential ==
    isCohereModel(modelToUse) =>
        /\ Cardinality(InFlight) <= 1
        /\ \A k \in 1..(Len(calls) - 1) :
              /\ calls[k].pc = "fulfilled"
              /\ TransportSucceeded(calls[k])
              /\ Len(allEmbeddings) >= Len(calls[k].embeddings)

\* The first chunk was throttled and waited before it succeeded; the second
\* chunk's first attempt is now in flight.
C11_Witness ==
    /\ isCohereModel(modelToUse)
    /\ Len(calls) = 2
    /\ Throttles(calls[1]) = 1
    /\ Waits(calls[1]) = 1
    /\ calls[1].pc = "fulfilled"
    /\ calls[2].pc = "sending"
    /\ Sends(calls[2]) = 1

(***************************************************************************)
(* C13.  For the BatchInput family, once the logical call of chunk k has   *)
(* failed terminally no logical call exists, and so no transport call is   *)
(* ever issued, for a chunk of index greater than k.                       *)
(***************************************************************************)
C13_NoChunkAfterFailure ==
    isCohereModel(modelToUse) =>
        \A k \in CallSet : Failed(calls[k]) => k = Len(calls)

\* Three texts in chunks of one: the second chunk failed and the invocation
\* has raised without a call for the third.
C13_Witness ==
    /\ isCohereModel(modelToUse)
    /\ config.batchSize = 1
    /\ Len(texts) = 3
    /\ phase = "raised"
    /\ Len(calls) = 2
    /\ calls[1].pc = "fulfilled"
    /\ calls[2].pc = "rejected"

(***************************************************************************)
(* C12.  For the SingleInput family, once one logical call of an           *)
(* invocation has failed terminally, no transport call is started for a    *)
(* text whose gated body had not yet started: a call that is still queued  *)
(* at the gate, with no transport attempt made, stays so in every later    *)
(* step.                                                                   *)
(***************************************************************************)
SomeCallFailed == \E i \in CallSet : Failed(calls[i])

Queued(c) == c.pc = "queued"

C12_QueuedNotAttemptedAfterFailure ==
    [][isTitanModel(modelToUse) =>
          \A j \in CallSet :
              (SomeCallFailed /\ Queued(calls[j])) => Sends(calls'[j]) = 0]_vars

(***************************************************************************)
(* C14.  When several sibling logical calls of one SingleInput invocation  *)
(* fail terminally, the error raised to the caller is the error of the     *)
(* call whose failure came first in time, that is, whose promise rejected  *)
(* first, not that of the lowest input index; later completions and        *)
(* failures of siblings neither change that error nor turn the outcome     *)
(* into a success.                                                         *)
(***************************************************************************)
Rejects(j) == calls[j].pc = "throwing" /\ calls'[j].pc = "rejected"

NoneRejected == \A i \in CallSet : calls[i].pc # "rejected"

C14_FirstFailureSurfaces ==
    [][isTitanModel(modelToUse) =>
          /\ \A j \in CallSet :
                Rejects(j) =>
                    IF NoneRejected
                    THEN result' = Raised(calls[j].error) /\ phase' = "raised"
                    ELSE result.status = "raised" /\ result' = result
          /\ result.status = "raised" => (result' = result /\ phase' = "raised")]_vars

\* Two texts through two permits: the second text failed first, with an
\* authentication error, then the first failed with a malformed body; the
\* caller holds the error of the second.
C14_Witness ==
    /\ isTitanModel(modelToUse)
    /\ Len(calls) = 2
    /\ calls[1].pc = "rejected"
    /\ calls[2].pc = "rejected"
    /\ calls[1].error.kind = "invalidResponse"
    /\ calls[2].error.status = 401
    /\ result = Raised(calls[2].error)

(***************************************************************************)
(* C15.  With maxConcurrency = 1 and the SingleInput family the transport  *)
(* calls are strictly sequential: at most one is in flight; the first      *)
(* attempt for text N+1 is issued only after the gated body of every       *)
(* earlier text has completed, a successful one with its response decoded  *)
(* and its tokens accounted; and when every call succeeds the transport    *)
(* receives exactly texts.length calls, which by the above are in input    *)
(* order.                                                                  *)
(***************************************************************************)
Completed(c) == c.pc \in {"fulfilled", "rejected"}

\* The tokens of the bodies that have run past totalTokens += result.tokens.
AccountedTokens ==
    SumSeq([j \in CallSet |->
               IF calls[j].pc \in {"returning", "fulfilled"} THEN calls[j].tokens ELSE 0])

GateSet == 1..Len(gates)

C16_WaitersStartInOrder ==
    \A v \in GateSet :
        LET cs == gates[v].calls
            w == gates[v].sem.waiting
        IN /\ \A i, j \in 1..Len(cs) :
                  (i < j /\ ~Queued(cs[j])) => ~Queued(cs[i])
           /\ \A i, j \in 1..Len(cs) :
                  (i < j /\ Sends(cs[j]) >= 1) => Sends(cs[i]) >= 1
           /\ \A a, b \in 1..Len(w) : a < b => w[a] < w[b]
           /\ \A a \in 1..Len(w) : Queued(cs[w[a]]) /\ cs[w[a]].waited

\* One permit and three requests: the second and third were both queued;
\* the second has started and the third is still waiting.
C16_Witness ==
    /\ Len(gates) = 1
    /\ config.maxConcurrency = 1
    /\ Len(gates[1].calls) = 3
    /\ Completed(gates[1].calls[1])
    /\ gates[1].calls[2].waited
    /\ gates[1].calls[2].pc = "sending"
    /\ Sends(gates[1].calls[2]) = 1
    /\ gates[1].calls[3].waited
    /\ Queued(gates[1].calls[3])

(***************************************************************************)
(* C17.  Each completion of a gated body releases exactly one waiter, the  *)
(* head of the queue, when the wait queue is non-empty, and none when it   *)
(* is empty: one completion never starts two queued bodies and never       *)
(* leaves a waiter queued while the freed permit stays unused.             *)
(***************************************************************************)
\* The step settles the promise of call j of gate v.
GateCompletes(v, j) ==
    /\ gates[v].calls[j].pc \in {"returning", "throwing"}
    /\ gates'[v].calls[j].pc \in {"fulfilled", "rejected"}

\* The calls of gate v whose bodies the step starts.
StartedBy(v) ==
    {k \in 1..Len(gates[v].calls) :
        Queued(gates[v].calls[k]) /\ ~Queued(gates'[v].calls[k])}

\* The step starts the body of the head of gate v's queue and no other and
\* hands the freed permit to it, or, with no waiter, starts no body and adds
\* the permit to the free ones.
WakesHeadOrFreesPermit(v) ==
    LET sem == gates[v].sem
    IN IF sem.waiting # <<>>
       THEN /\ StartedBy(v) = {Head(sem.waiting)}
            /\ gates'[v].sem.waiting = Tail(sem.waiting)
            /\ gates'[v].sem.permits = sem.permits
       ELSE /\ StartedBy(v) = {}
            /\ gates'[v].sem.waiting = <<>>
            /\ gates'[v].sem.permits = sem.permits + 1

C17_OneWaiterPerCompletion ==
    [][\A v \in GateSet :
          \A j \in 1..Len(gates[v].calls) :
              GateCompletes(v, j) => WakesHeadOrFreesPermit(v)]_vars

\* Two permits and three requests: both running bodies have completed, the
\* first completion started the one waiter, the second found the queue empty
\* and freed its permit.
C17_Witness ==
    /\ Len(gates) = 1
    /\ config.maxConcurrency = 2
    /\ Len(gates[1].calls) = 3
    /\ Completed(gates[1].calls[1])
    /\ Completed(gates[1].calls[2])
    /\ gates[1].calls[3].waited
    /\ gates[1].calls[3].pc = "sending"
    /\ gates[1].sem.waiting = <<>>
    /\ gates[1].sem.permits = 1

(***************************************************************************)
(* C18.  A gated body that ends in failure (a terminal transport error or  *)
(* a malformed response) returns its permit and wakes the next waiter      *)
(* exactly as a successful body does, whether it ran at once or after      *)
(* having been queued; the failure settles that body's own promise and no  *)
(* other call's.                                                           *)
(***************************************************************************)
C18_FailureReleasesLikeSuccess ==
    [][\A v \in GateSet :
          \A j \in 1..Len(gates[v].calls) :
              (gates[v].calls[j].pc = "throwing" /\ gates'[v].calls[j].pc # "throwing") =>
                  /\ gates'[v].calls[j].pc = "rejected"
                  /\ gates'[v].calls[j].error = gates[v].calls[j].error
                  /\ WakesHeadOrFreesPermit(v)
                  /\ \A i \in 1..Len(gates[v].calls) \ {j} :
                        /\ gates'[v].calls[i].error = gates[v].calls[i].error
                        /\ gates'[v].calls[i].pc = "rejected"
                              => gates[v].calls[i].pc = "rejected"]_vars

\* One permit and three requests: the first body ran at once and failed, the
\* second ran after having been queued and failed, and the third, woken by
\* the second's failure, is running with no error of its own.
C18_Witness ==
    /\ Len(gates) = 1
    /\ config.maxConcurrency = 1
    /\ Len(gates[1].calls) = 3
    /\ ~gates[1].calls[1].waited
    /\ gates[1].calls[1].pc = "rejected"
    /\ gates[1].calls[2].waited
    /\ gates[1].calls[2].pc = "rejected"
    /\ gates[1].calls[2].error.kind = "invalidResponse"
    /\ gates[1].calls[3].waited
    /\ gates[1].calls[3].pc = "sending"
    /\ gates[1].calls[3].error = NoError
    /\ gates[1].sem.permits = 0

(***************************************************************************)
(* C19.  The engine has one gate per engine instance, sized at             *)
(* construction: when invocations of the SingleInput family overlap on one *)
(* engine they share its permits, so the gated bodies executing at once,   *)
(* over all the invocations, never exceed maxConcurrency.                  *)
(***************************************************************************)
BodiesRunning == SumSeq([v \in GateSet |-> Cardinality(Running(gates[v].calls))])

C19_OneGatePerEngine == BodiesRunning <= config.maxConcurrency

(***************************************************************************)
(* C20.  validateConfiguration never raises: whatever the transport does   *)
(* (success, 401, 403, 429 on every attempt, connection failure, malformed *)
(* body) and for an unsupported default model, once its createEmbeddings   *)
(* call on ["test"] with the default model has ended it returns a result   *)
(* object, with valid = true and no error exactly when that call returned, *)
(* and valid = false with a non-empty error string when it raised.         *)
(***************************************************************************)
C20_ValidationNeverRaises ==
    /\ validation.status \in {"none", "pending", "returned"}
    /\ validation.status # "none" =>
          (texts = ValidationTexts /\ modelToUse = config.modelId)
    /\ validation.status = "returned" =>
          /\ result.status \in {"returned", "raised"}
          /\ validation.valid <=> result.status = "returned"
          /\ validation.valid => validation.error = ""
          /\ ~validation.valid =>
                (validation.error # "" /\ validation.error = result.error.kind)

\* 429 on each of the three attempts: valid = false with an error string.
C20_Witness ==
    /\ validation.status = "returned"
    /\ ~validation.valid
    /\ validation.error # ""
    /\ config.maxRetries = 3
    /\ Len(calls) = 1
    /\ Throttles(calls[1]) = 3

(***************************************************************************)
(* C21.  On success usage.promptTokens = usage.totalTokens = the sum over  *)
(* the input texts of ceil(length(text) / 4), each text counted once,      *)
(* whatever the model family, the chunking, the completion order of        *)
(* concurrent calls and the throttling retries of any call.                *)
(***************************************************************************)
ExpectedTokens == SumSeq([i \in 1..Len(texts) |-> CeilDiv(Len(texts[i]), 4)])

C21_TokensCountEachTextOnce ==
    phase = "returned" =>
        /\ result.usage.promptTokens = ExpectedTokens
        /\ result.usage.totalTokens = ExpectedTokens

\* Two texts through two permits, the first returned after a throttle; the
\* texts have 5 and 0 characters: 2 tokens.
C21_Witness ==
    /\ phase = "returned"
    /\ isTitanModel(modelToUse)
    /\ texts = <<"Hello", "">>
    /\ Throttles(calls[1]) = 1
    /\ Throttles(calls[2]) = 0
    /\ result.usage.totalTokens = 2

(***************************************************************************)
(* C22.  The attempt count carried by the terminal error of a failed       *)
(* logical call equals the number of transport attempts the call made      *)
(* before failing.                                                         *)
(***************************************************************************)
CarriesAttempts(error) ==
    error.kind \in {"failedWithStatus", "failedWithError", "failedMaxAttempts"}

C22_AttemptsMade ==
    \A j \in CallSet :
        (Failed(calls[j]) /\ CarriesAttempts(calls[j].error))
            => calls[j].error.attempts = Sends(calls[j])

(***************************************************************************)
(* C23.  Every terminal failure of createEmbeddings (unsupported model,    *)
(* malformed response, exhausted throttling, every transport failure that  *)
(* is not retried) has been reported to the telemetry collaborator at      *)
(* least once when the error reaches the caller, and a throttling failure  *)
(* that is retried is not reported.                                        *)
(***************************************************************************)
\* The logical call whose error createEmbeddings raised was reported.
RaisedErrorReported ==
    \E j \in CallSet : calls[j].error = result.error /\ calls[j].reports >= 1

C23_TerminalFailuresReported ==
    /\ phase = "raised" => RaisedErrorReported
    /\ \A j \in CallSet : calls[j].reports <= Cardinality(Events(calls[j], "fail")) - Waits(calls[j])

(***************************************************************************)
(* C24.  A failure of the telemetry report never changes the outcome of    *)
(* the embedding call: whether captureEvent returns or raises, a logical   *)
(* call ended by a transport failure carries the classified error of that  *)
(* failure.  (The gate permit is released in both cases.)                  *)
(***************************************************************************)
EndedByTransportFailure(c) ==
    Failed(c) /\ c.trace # <<>> /\ Last(c.trace).type = "fail"

C24_TelemetryFailureIsHarmless ==
    \A j \in CallSet :
        EndedByTransportFailure(calls[j]) =>
            /\ calls[j].error.kind \in
                  {"authenticationFailed", "permissionDenied", "connectionFailed",
                   "failedWithStatus", "failedWithError"}
            /\ calls[j].error.status = Last(calls[j].trace).status
            /\ calls[j].error.attempts = config.maxRetries

(***************************************************************************)
(* C25.  If maxConcurrency >= 1, maxRetries is finite and every transport  *)
(* call and every backoff wait eventually completes, every createEmbeddings*)
(* invocation eventually settles (returns a result or raises a terminal    *)
(* error) and every queued gate waiter eventually starts its body.         *)
(***************************************************************************)
Settled == phase \in {"returned", "raised"}

IsQueued(j) == j \in CallSet /\ Queued(calls[j])

C25_SettlesAndNoWaiterStarves ==
    /\ (phase = "running" /\ config.maxConcurrency >= 1) ~> Settled
    /\ \A j \in CallIds :
          (IsQueued(j) /\ config.maxConcurrency >= 1) ~> ~IsQueued(j)

\* One permit and two texts: the second waited, has run and has returned
\* after a throttle of the first; the invocation has returned.
C25_Witness ==
    /\ isTitanModel(modelToUse)
    /\ config.maxConcurrency = 1
    /\ Len(calls) = 2
    /\ Throttles(calls[1]) = 1
    /\ calls[2].waited
    /\ calls[2].pc = "fulfilled"
    /\ phase = "returned"

(***************************************************************************)
(* C26.  The retry counter is scoped to one logical call: each logical     *)
(* call makes at most maxRetries transport attempts, its counter is the    *)
(* number of its own retried throttles whatever its siblings did (a call   *)
(* ended by throttling has used all maxRetries attempts), and an           *)
(* invocation with n logical calls makes at most n * maxRetries transport  *)
(* calls.                                                                  *)
(***************************************************************************)
TotalSends == SumSeq([j \in CallSet |-> Sends(calls[j])])

C26_RetryCounterPerCall ==
    /\ \A j \in CallSet :
          /\ Sends(calls[j]) <= config.maxRetries
          /\ calls[j].attempt = Waits(calls[j])
          /\ calls[j].pc \in {"sending", "backoff"} => Sends(calls[j]) = calls[j].attempt + 1
          /\ (Failed(calls[j]) /\ calls[j].error.status = 429)
                => Sends(calls[j]) = config.maxRetries
    /\ TotalSends <= Len(calls) * config.maxRetries

\* Two concurrent calls with maxRetries = 2: the first was throttled once
\* and then succeeded, the second was throttled twice and failed; each made
\* its two attempts.
C26_Witness ==
    /\ isTitanModel(modelToUse)
    /\ config.maxRetries = 2
    /\ config.maxConcurrency = 2
    /\ Len(calls) = 2
    /\ Throttles(calls[1]) = 1
    /\ calls[1].pc = "fulfilled"
    /\ Throttles(calls[2]) = 2
    /\ calls[2].pc = "rejected"
    /\ TotalSends = 4

(***************************************************************************)
(* C27.  The effective model id of an invocation is the override when one  *)
(* is supplied and the configured default otherwise, and the family        *)
(* strategy (one call per text through the gate, or one call per chunk) is *)
(* determined by the effective id alone.  The claim as written counts      *)
(* every supplied string as an override; the code takes the empty string   *)
(* for an absent override.                                                 *)
(***************************************************************************)
\* The strategy in use is the one of the effective model id's family.
StrategyOfEffectiveModel ==
    phase # "idle" =>
        IF isTitanModel(modelToUse)
        THEN /\ semaphore.exists
             /\ Len(calls) = Len(texts)
             /\ \A j \in CallSet : calls[j].items = <<j>>
        ELSE IF isCohereModel(modelToUse)
        THEN /\ ~semaphore.exists
             /\ \A j \in CallSet :
                   calls[j].items = ExpectedChunk(j, Len(texts), config.batchSize)
        ELSE /\ ~semaphore.exists
             /\ calls = <<>>

\* C27 as written: every supplied override, the empty string included, is
\* the effective model id.
C27_OverrideWhenSupplied ==
    [][/\ \A n \in 0..MaxTexts, model \in ModelArgs :
             createEmbeddings(n, model) =>
                 modelToUse' = IF model # Undefined THEN model ELSE config.modelId
       /\ StrategyOfEffectiveModel']_vars

\* C27 as amended: a supplied, non-empty override is the effective model id;
\* with no override, or an empty one, it is the configured default.
C27_OverrideWhenNonEmpty ==
    [][/\ \A n \in 0..MaxTexts, model \in ModelArgs :
             createEmbeddings(n, model) =>
                 modelToUse' = IF model \notin {Undefined, ""} THEN model ELSE config.modelId
       /\ StrategyOfEffectiveModel']_vars

\* An engine configured with a Titan default, given a Cohere override and
\* three texts, sends them as one chunk and creates no gate.
C27_Witness ==
    /\ config.modelId = TitanModel
    /\ modelToUse = CohereOverride
    /\ Len(texts) = 3
    /\ ~semaphore.exists
    /\ Len(calls) = 1
    /\ calls[1].items = <<1, 2, 3>>

(***************************************************************************)
(* C28.  The gate's permit counter and wait queue change only in the       *)
(* gate's acquire and release steps: issuing a transport call, receiving   *)
(* its response or failure, waiting out a backoff delay, decoding a body   *)
(* and accumulating tokens all leave them unchanged.                       *)
(***************************************************************************)
\* The step makes the acquires of an invocation (texts.map).
AcquireStep == phase = "idle" /\ phase' # "idle"

\* The step settles a gated call and runs the finally block of acquire.
ReleaseStep ==
    \E j \in CallSet :
        /\ calls[j].pc \in {"returning", "throwing"}
        /\ calls'[j].pc \in {"fulfilled", "rejected"}

\* The step is a transport answer, the end of a backoff wait, a decoding or
\* the accounting of tokens of some call.
BodyStep ==
    \E j \in CallSet :
        /\ calls[j].pc \in {"sending", "backoff", "received", "decoded"}
        /\ calls'[j] # calls[j]

C28_GateChangesOnlyInGateSteps ==
    [][/\ semaphore' # semaphore => (AcquireStep \/ ReleaseStep)
       /\ BodyStep => semaphore' = semaphore]_vars

\* One permit, two texts: the first body has been throttled, has waited, was
\* answered, decoded and accounted; the gate still holds the second text.
C28_Witness ==
    /\ isTitanModel(modelToUse)
    /\ config.maxConcurrency = 1
    /\ Len(calls) = 2
    /\ Waits(calls[1]) = 1
    /\ calls[1].pc = "returning"
    /\ totalTokens = calls[1].tokens
    /\ semaphore = [exists |-> TRUE, permits |-> 0, waiting |-> <<2>>]

(***************************************************************************)
(* C29.  validateConfiguration issues exactly one logical call, for the    *)
(* single text "test" with the configured default model: when the          *)
(* transport succeeds on the first attempt exactly one transport call is   *)
(* made, for either family, and in every case at most maxRetries transport *)
(* calls are made.                                                         *)
(***************************************************************************)
C29_ValidationIsOneCall ==
    validation.status # "none" =>
        /\ texts = <<"test">>
        /\ modelToUse = config.modelId
        /\ Len(calls) = IF isTitanModel(modelToUse) \/ isCohereModel(modelToUse) THEN 1 ELSE 0
        /\ \A j \in CallSet : calls[j].items = <<1>>
        /\ TotalSends <= config.maxRetries
        /\ (validation.status = "returned" /\ NoTransportFailure /\ Len(calls) = 1
               /\ config.maxRetries >= 1)
              => TotalSends = 1

\* A Cohere engine validated with one transport call.
C29_Witness ==
    /\ validation.status = "returned"
    /\ validation.valid
    /\ isCohereModel(config.modelId)
    /\ Len(calls) = 1
    /\ calls[1].trace = <<SendEvent(0), OkEvent(0)>>

(***************************************************************************)
(* C30.  Permit conservation: in every reachable state of a gate created   *)
(* with P >= 0 permits, 0 <= permits <= P and permits plus the number of   *)
(* bodies executing is P, for any sequence of acquires and of successful   *)
(* or failing body completions.                                            *)
(***************************************************************************)
C30_PermitConservation ==
    \A v \in GateSet :
        /\ 0 <= gates[v].sem.permits
        /\ gates[v].sem.permits <= config.maxConcurrency
        /\ gates[v].sem.permits + Cardinality(Running(gates[v].calls))
              = config.maxConcurrency

\* Two permits, three requests: one body failed, one returned, the third,
\* which had waited, is executing; one permit is free.
C30_Witness ==
    /\ Len(gates) = 1
    /\ config.maxConcurrency = 2
    /\ Len(gates[1].calls) = 3
    /\ gates[1].calls[1].pc = "rejected"
    /\ gates[1].calls[2].pc = "fulfilled"
    /\ gates[1].calls[3].waited
    /\ gates[1].calls[3].pc = "sending"
    /\ gates[1].sem.permits = 1

(***************************************************************************)
(* C31.  The gate is work-conserving and admits no barging: in every       *)
(* state between steps a non-empty wait queue implies permits = 0, since   *)
(* a freed permit is handed to the head waiter in the step that returns    *)
(* it; so an arriving acquire never takes a permit ahead of a waiter that  *)
(* is already queued.                                                      *)
(***************************************************************************)
\* The calls of gate v whose body has started.
BodyStarted(v) == {j \in 1..Len(gates[v].calls) : gates[v].calls[j].pc # "queued"}

\* The step brings new acquire requests to gate v.
Arrives(v) == Len(gates'[v].calls) > Len(gates[v].calls)

C31_NoBarging ==
    [][\A v \in GateSet :
          /\ gates[v].sem.waiting # <<>> => gates[v].sem.permits = 0
          /\ gates'[v].sem.waiting # <<>> => gates'[v].sem.permits = 0
          /\ (Arrives(v) /\ gates[v].sem.waiting # <<>>) =>
                /\ BodyStarted(v)' = BodyStarted(v)
                /\ SubSeq(gates'[v].sem.waiting, 1, Len(gates[v].sem.waiting))
                      = gates[v].sem.waiting]_vars

\* One permit, three requests: the first body ended and its permit went to
\* the second request, which had waited, in the same step; the third is
\* still queued and the gate holds no free permit.
C31_Witness ==
    /\ Len(gates) = 1
    /\ config.maxConcurrency = 1
    /\ Len(gates[1].calls) = 3
    /\ gates[1].calls[1].pc = "fulfilled"
    /\ gates[1].calls[2].waited
    /\ gates[1].calls[2].pc = "sending"
    /\ gates[1].sem.waiting = <<3>>
    /\ gates[1].sem.permits = 0

(***************************************************************************)
(* C32.  A SingleInput logical call keeps its gate permit for its whole    *)
(* lifetime, every retry and every backoff wait included: while k calls    *)
(* are waiting out a backoff, at most maxConcurrency - k other calls of    *)
(* the invocation have a transport call in flight, and a permit is given   *)
(* back only at the call's final success or terminal failure.              *)
(***************************************************************************)
InBackoff == {j \in CallSet : calls[j].pc = "backoff"}

C32_PermitHeldAcrossRetries ==
    (isTitanModel(modelToUse) /\ semaphore.exists) =>
        /\ Cardinality(InFlight) <= config.maxConcurrency - Cardinality(InBackoff)
        /\ semaphore.permits + Cardinality(Running(calls)) = config.maxConcurrency
        /\ \A j \in CallSet :
              (Sends(calls[j]) >= 1 /\ ~Completed(calls[j])) => j \in Running(calls)

\* One permit, two texts: the first call is in its second backoff wait and
\* still holds the permit; the second text is queued and nothing is in
\* flight.
C32_Witness ==
    /\ isTitanModel(modelToUse)
    /\ config.maxConcurrency = 1
    /\ Len(calls) = 2
    /\ calls[1].pc = "backoff"
    /\ Waits(calls[1]) = 1
    /\ Queued(calls[2])
    /\ InFlight = {}
    /\ semaphore.permits = 0

(***************************************************************************)
(* C33.  Quiescence: once every logical call submitted to a gate has       *)
(* settled, whether by success or by failure, the wait queue is empty and  *)
(* permits has its initial value; no permit is leaked, and with            *)
(* maxConcurrency >= 1 no waiter stays queued for ever after a sibling's   *)
(* failure.                                                                *)
(***************************************************************************)
\* Every call submitted to gate v has settled.
AllSettled(v) == \A j \in 1..Len(gates[v].calls) : Completed(gates[v].calls[j])

\* Gate v is as it was constructed.
AsConstructed(v) == gates[v].sem = NewSemaphore(config.maxConcurrency)

\* A call of gate v has failed while another is still queued.
QueuedBehindFailure(v) ==
    /\ v \in GateSet
    /\ \E i \in 1..Len(gates[v].calls) : Failed(gates[v].calls[i])
    /\ gates[v].sem.waiting # <<>>

C33_Quiescence ==
    /\ [](\A v \in GateSet : AllSettled(v) => AsConstructed(v))
    /\ \A v \in GateIds :
          (QueuedBehindFailure(v) /\ config.maxConcurrency >= 1)
              ~> (v \in GateSet /\ AllSettled(v) /\ AsConstructed(v))

\* One permit, three requests: the first body failed, the two that had
\* waited behind it have run, one to success and one to failure, and the
\* gate is as constructed.
C33_Witness ==
    /\ Len(gates) = 1
    /\ config.maxConcurrency = 1
    /\ Len(gates[1].calls) = 3
    /\ gates[1].calls[1].pc = "rejected"
    /\ gates[1].calls[2].waited /\ gates[1].calls[2].pc = "fulfilled"
    /\ gates[1].calls[3].waited /\ gates[1].calls[3].pc = "rejected"
    /\ gates[1].sem = [exists |-> TRUE, permits |-> 1, waiting |-> <<>>]

(***************************************************************************)
(* C34.  With maxConcurrency = 0 (or negative) and a non-empty SingleInput *)
(* texts list every acquire is queued and no completion ever wakes a       *)
(* waiter: no transport call is ever made and createEmbeddings never       *)
(* settles, neither returning nor raising.                                 *)
(***************************************************************************)
ClosedGateInvocation ==
    /\ phase # "idle"
    /\ isTitanModel(modelToUse)
    /\ config.maxConcurrency <= 0
    /\ Len(texts) > 0

C34_ClosedGateNeverSettles ==
    ClosedGateInvocation =>
        /\ phase = "running"
        /\ result = Pending
        /\ validation.status \in {"none", "pending"}
        /\ Len(calls) = Len(texts)
        /\ \A j \in CallSet : Queued(calls[j]) /\ calls[j].trace = <<>>
        /\ TotalSends = 0
        /\ semaphore = [exists |-> TRUE, permits |-> config.maxConcurrency,
                        waiting |-> [j \in CallSet |-> j]]

\* maxConcurrency = -1, two texts: both acquires are queued and nothing is
\* enabled that would start them.
C34_Witness ==
    /\ ClosedGateInvocation
    /\ config.maxConcurrency < 0
    /\ Len(texts) = 2
    /\ semaphore.waiting = <<1, 2>>
    /\ \A j \in CallIds : ~ENABLED SemaphoreRelease(j)
                          /\ ~ENABLED TransportSucceeds(j, ArrayField(<<Vector(j)>>))

(***************************************************************************)
(* C35.  With maxRetries <= 0 every logical call fails with the "failed    *)
(* after maxRetries attempts" error without any transport call, backoff    *)
(* wait or telemetry report; with maxRetries >= 1 that fall-through error  *)
(* after the retry loop is unreachable.                                    *)
(***************************************************************************)
FellThrough(c) == c.error.kind = "failedMaxAttempts"

C35_FallThroughOnlyWithoutRetries ==
    /\ \A j \in CallSet :
          IF config.maxRetries <= 0
          THEN /\ calls[j].trace = <<>>
               /\ calls[j].reports = 0
               /\ Queued(calls[j]) \/
                     (Failed(calls[j]) /\ calls[j].error = FailedMaxAttempts(config.maxRetries))
          ELSE ~FellThrough(calls[j])
    /\ FellThrough(result) => config.maxRetries <= 0
    /\ (config.maxRetries <= 0 /\ phase \in {"returned", "raised"} /\ Len(texts) > 0
          /\ (isTitanModel(modelToUse) \/ isCohereModel(modelToUse)))
          => (phase = "raised" /\ result.error = FailedMaxAttempts(config.maxRetries))

\* maxRetries = 0, one permit, two texts: the first call fell through the
\* loop and was rejected, the second, started by the first one's release,
\* fell through as well; nothing was sent.
C35_Witness ==
    /\ config.maxRetries = 0
    /\ isTitanModel(modelToUse)
    /\ config.maxConcurrency = 1
    /\ Len(calls) = 2
    /\ calls[1].pc = "rejected" /\ FellThrough(calls[1])
    /\ calls[2].waited /\ Failed(calls[2]) /\ FellThrough(calls[2])
    /\ TotalSends = 0
    /\ phase = "raised"

(***************************************************************************)
(* C36.  createEmbeddings with an empty texts list and a supported model   *)
(* returns an empty embeddings list with promptTokens = totalTokens = 0,   *)
(* makes no transport call and takes no gate permit, for both families;    *)
(* with an unsupported model it still raises the unsupported-model error.  *)
(***************************************************************************)
EmptyInvocation == phase # "idle" /\ texts = <<>>

C36_EmptyTexts ==
    EmptyInvocation =>
        IF isTitanModel(modelToUse) \/ isCohereModel(modelToUse)
        THEN /\ phase = "returned"
             /\ result.status = "returned"
             /\ result.embeddings = <<>>
             /\ result.usage = [promptTokens |-> 0, totalTokens |-> 0]
             /\ calls = <<>>
             /\ TotalSends = 0
             /\ semaphore.exists =>
                   semaphore = [exists |-> TRUE, permits |-> config.maxConcurrency,
                                waiting |-> <<>>]
        ELSE /\ phase = "raised"
             /\ result.error = UnsupportedModelError(modelToUse)
             /\ calls = <<>>

\* A SingleInput engine whose gate has no permit at all returns the empty
\* result for an empty list.
C36_Witness ==
    /\ EmptyInvocation
    /\ isTitanModel(modelToUse)
    /\ config.maxConcurrency = 0
    /\ phase = "returned"
    /\ result.embeddings = <<>>
    /\ semaphore.permits = 0

(***************************************************************************)
(* C37.  createBedrockRuntimeClient selects exactly one authentication     *)
(* mode by fixed priority: the API-key token when awsUseApiKey and         *)
(* awsApiKey are set; else profile credentials when awsUseProfile and      *)
(* awsProfile are set; else direct credentials when both the access key    *)
(* and the secret key are set; else empty credentials.  The client is      *)
(* always created with maxAttempts = 1, and the endpoint is set only when  *)
(* an endpoint is given and enabled.                                       *)
(***************************************************************************)
HasField(r, name) == name \in DOMAIN r

ApiKeyMode == options.awsUseApiKey /\ IsSet(options.awsApiKey)
ProfileMode == options.awsUseProfile /\ IsSet(options.awsProfile)
DirectMode == IsSet(options.awsAccessKey) /\ IsSet(options.awsSecretKey)

C37_AuthenticationPriority ==
    client.created =>
        LET c == client.clientConfig
        IN /\ c.maxAttempts = 1
           /\ c.region = options.awsRegion
           /\ HasField(c, "endpoint") <=>
                 (IsSet(options.awsBedrockEndpoint) /\ options.awsBedrockEndpointEnabled)
           /\ HasField(c, "endpoint") => c.endpoint = options.awsBedrockEndpoint
           /\ HasField(c, "token") # HasField(c, "credentials")
           /\ IF ApiKeyMode
              THEN /\ HasField(c, "token")
                   /\ c.token.token = options.awsApiKey
              ELSE /\ HasField(c, "credentials")
                   /\ IF ProfileMode
                      THEN /\ HasField(c.credentials, "profile")
                           /\ c.credentials.profile = options.awsProfile
                      ELSE /\ HasField(c.credentials, "accessKeyId")
                           /\ IF DirectMode
                              THEN /\ c.credentials.accessKeyId = options.awsAccessKey
                                   /\ c.credentials.secretAccessKey = options.awsSecretKey
                              ELSE /\ c.credentials.accessKeyId = ""
                                   /\ c.credentials.secretAccessKey = ""

\* Every mode is offered at once, the endpoint is given but not enabled:
\* the client authenticates by token, has no credentials and no endpoint.
C37_Witness ==
    /\ client.created
    /\ ApiKeyMode /\ ProfileMode /\ DirectMode
    /\ IsSet(options.awsBedrockEndpoint) /\ ~options.awsBedrockEndpointEnabled
    /\ HasField(client.clientConfig, "token")
    /\ ~HasField(client.clientConfig, "credentials")
    /\ ~HasField(client.clientConfig, "endpoint")
    /\ client.clientConfig.maxAttempts = 1

====
